---- MODULE Spec2Model ----
(***************************************************************************)
(* Dynamic Ansible inventory, src/ansible/inventory.py.                    *)
(*                                                                         *)
(* One invocation of the script reads /tmp/dockflow_context.json, writes   *)
(* the SSH private key it finds there to /tmp/dockflow_key, and prints an  *)
(* inventory document.  The model has the two files as shared state and    *)
(* one program counter per invocation, so that several invocations can     *)
(* run against the same files.                                             *)
(*                                                                         *)
(* Strings that the program only compares and concatenates (env, host      *)
(* names, arguments) are TLA+ strings.  The private key, which the program *)
(* rewrites character by character, is a sequence of characters.           *)
(***************************************************************************)
EXTENDS Naturals, Sequences, FiniteSets, TLC

\* ------------------------------------------------------------------ bounds

\* Longest private key drawn in SpecKey.
MaxKeyLen == 3
\* Number of concurrent invocations in SpecConc.
NumProcs == 2

\* ------------------------------------------------------------- JSON values

\* A key that a dict does not hold (used only while enumerating dicts).
Absent == [t |-> "absent"]
\* A local variable that has not been assigned yet.
None == [t |-> "unset"]
Null == [t |-> "null"]
Str(s) == [t |-> "str", s |-> s]
\* A string kept as its sequence of characters.
Text(c) == [t |-> "str", c |-> c]
Num(n) == [t |-> "num", n |-> n]
Arr(a) == [t |-> "arr", a |-> a]
Obj(o) == [t |-> "obj", o |-> o]

\* The dict with the keys of record r whose value is not Absent.
Dict(r) == Obj([k \in {j \in DOMAIN r : r[j] # Absent} |-> r[k]])
EmptyDict == Obj([k \in {} |-> Null])

\* Python's truth value of a JSON value (`if private_key:`, `if password:`).
Truthy(v) ==
  CASE v.t = "str" -> (IF "s" \in DOMAIN v THEN v.s # "" ELSE v.c # <<>>)
    [] v.t = "num" -> v.n # 0
    [] v.t = "arr" -> v.a # <<>>
    [] v.t = "obj" -> DOMAIN v.o # {}
    [] OTHER -> FALSE

\* dict.get(k, default); only a dict has the method.
HasGet(v) == v.t = "obj"
Get(d, k, default) == IF k \in DOMAIN d.o THEN d.o[k] ELSE default

\* How an f-string formats a string or None.
Format(v) ==
  CASE v.t = "str" -> v.s
    [] v.t = "null" -> "None"

\* --------------------------------------------------------- key normalisation

CR == "\r"
LF == "\n"
BS == "\\"
\* What str.strip() removes, among the characters of the model.
Whitespace == {" ", "\t", CR, LF}

\* Whether `old` occurs in s at position i.
MatchAt(s, i, old) ==
  /\ i + Len(old) - 1 <= Len(s)
  /\ \A j \in 1..Len(old) : s[i + j - 1] = old[j]

\* str.replace(old, new): left to right, non-overlapping.
RECURSIVE ReplaceFrom(_, _, _, _)
ReplaceFrom(s, i, old, new) ==
  IF i > Len(s) THEN <<>>
  ELSE IF MatchAt(s, i, old) THEN new \o ReplaceFrom(s, i + Len(old), old, new)
  ELSE <<s[i]>> \o ReplaceFrom(s, i + 1, old, new)

Replace(s, old, new) == ReplaceFrom(s, 1, old, new)

RECURSIVE LStrip(_)
LStrip(s) == IF s # <<>> /\ Head(s) \in Whitespace THEN LStrip(Tail(s)) ELSE s

RECURSIVE RStrip(_)
RStrip(s) ==
  IF s # <<>> /\ s[Len(s)] \in Whitespace THEN RStrip(SubSeq(s, 1, Len(s) - 1)) ELSE s

Strip(s) == RStrip(LStrip(s))

\* Line 26.
NormalizeKey(k) ==
  Strip(Replace(Replace(k, <<BS, "n">>, <<LF>>), <<CR, LF>>, <<LF>>)) \o <<LF>>

\* ------------------------------------------------------------------ files

CONTEXT_FILE == "/tmp/dockflow_context.json"
SSH_KEY_FILE == "/tmp/dockflow_key"

\* Permission bits.
S_IRUSR == "S_IRUSR"
S_IWUSR == "S_IWUSR"
Mode600 == {S_IRUSR, S_IWUSR}
Mode644 == {S_IRUSR, S_IWUSR, "S_IRGRP", "S_IROTH"}
Mode666 == Mode644 \cup {"S_IWGRP", "S_IWOTH"}
\* 0666 masked by the umask of the process: what open() gives a file it creates.
CreateModes == {Mode600, Mode644, Mode666}

\* A byte of a hole left by a write past the end of the file.
NUL == "NUL"

\* The file after `chunk` is written at offset `off` (0-based).
WriteAt(content, off, chunk) ==
  LET padded == IF Len(content) < off
                THEN content \o [i \in 1..(off - Len(content)) |-> NUL]
                ELSE content
      end    == off + Len(chunk)
      newLen == IF Len(padded) > end THEN Len(padded) ELSE end
  IN  [i \in 1..newLen |->
         IF i > off /\ i <= end THEN chunk[i - off] ELSE padded[i]]

\* A bug: the file opened without truncation ('r+').
NotTruncated(content) == content

\* What open(SSH_KEY_FILE, 'w') leaves of the content of an existing file.
Truncated(content) == <<>>

\* A bug: 0644 for 0600.
KeyModeLoose == Mode644

\* Line 31: the mode os.chmod sets.
KeyMode == {S_IRUSR, S_IWUSR}

\* ------------------------------------------------------------ exceptions

NoExc == [type |-> "none", site |-> "none"]
Exc(type, site) == [type |-> type, site |-> site]

\* A bug: the try block around the whole of get_inventory.
CaughtAnywhere(e) == e.type \in {"JSONDecodeError", "OSError"}

\* Lines 44-47: the try block holds lines 45-46 and its except clause names
\* json.JSONDecodeError and IOError (an alias of OSError).
Caught(e) == e.site = "load" /\ e.type \in {"JSONDecodeError", "OSError"}

\* ------------------------------------------------------ inventory documents

\* Lines 42 and 49.
EmptyInventory == Obj([_meta |-> Obj([hostvars |-> EmptyDict])])

\* A bug: the two parts the wrong way round.
HostNameSwapped(env, server_name) == Format(server_name) \o "-" \o Format(env)

\* Line 62.
HostName(env, server_name) == Format(env) \o "-" \o Format(server_name)

\* A bug: `is not None` for the truth value.
KeyIsNotNone(private_key) == private_key.t # "null"
PasswordIsNotNone(password) == password.t # "null"

\* Line 58: the test `if private_key:`.
WantsKey(private_key) == Truthy(private_key)
\* Line 75: the test `if password:`.
WantsPassword(password) == Truthy(password)

\* Line 52.
SelectConnection(ctx) ==
  Get(ctx, "ssh_connection", Get(ctx, "connection", EmptyDict))

\* Lines 65-76.
BuildHostvars(connection) ==
  LET base == [ansible_host |-> Get(connection, "host", Str("")),
               ansible_port |-> Get(connection, "port", Num(22)),
               ansible_user |-> Get(connection, "user", Str("root")),
               ansible_ssh_private_key_file |-> Str("/tmp/dockflow_key"),
               ansible_ssh_common_args |->
                 Str("-o StrictHostKeyChecking=no -o UserKnownHostsFile=/dev/null")]
      password == Get(connection, "password", Str(""))
  IN  IF WantsPassword(password)
      THEN Obj(base @@ ("ansible_become_password" :> password))
      ELSE Obj(base)

\* Lines 79-89.
BuildInventory(host_name, hostvars) ==
  Obj([all   |-> Obj([hosts |-> Arr(<<Str(host_name)>>), vars |-> EmptyDict]),
       _meta |-> Obj([hostvars |-> Obj(host_name :> hostvars)])])

\* A bug: `>=` for `==` in the test of line 98.
DispatchAtLeast(args, inventory) ==
  IF Len(args) = 2 /\ args[2] = "--list" THEN inventory
  ELSE IF Len(args) >= 3 /\ args[2] = "--host"
  THEN Get(Get(Get(inventory, "_meta", EmptyDict), "hostvars", EmptyDict),
           args[3], EmptyDict)
  ELSE inventory

\* Lines 96-106: what main prints, given sys.argv and get_inventory's result.
Dispatch(args, inventory) ==
  IF Len(args) = 2 /\ args[2] = "--list" THEN inventory
  ELSE IF Len(args) = 3 /\ args[2] = "--host"
  THEN Get(Get(Get(inventory, "_meta", EmptyDict), "hostvars", EmptyDict),
           args[3], EmptyDict)
  ELSE inventory

\* ------------------------------------------------------------ the inputs

\* The key of the round trip of the specification: line1, a literal
\* backslash-n, line2, CR LF.
RoundTripKey ==
  <<"l", "i", "n", "e", "1", BS, "n", "l", "i", "n", "e", "2", CR, LF>>
RoundTripFile ==
  <<"l", "i", "n", "e", "1", LF, "l", "i", "n", "e", "2", LF>>

\* Characters of the keys SpecKey draws.
KeyAlphabet == {"a", BS, "n", CR, LF, " "}
Strings(n) == UNION {[1..k -> KeyAlphabet] : k \in 0..n}

Endpoints ==
  {[host |-> Absent, port |-> Absent, user |-> Absent],
   [host |-> Str("10.0.0.5"), port |-> Num(2222), user |-> Str("deploy")]}
KeyVals ==
  {Absent, Null, Text(<<>>), Num(5), Text(<<"K", "E", "Y">>), Text(RoundTripKey)}
PasswordVals == {Absent, Null, Str(""), Str("s3cret")}

Connection(e, k, w) ==
  Dict([host |-> e.host, port |-> e.port, user |-> e.user,
        private_key |-> k, password |-> w])
ConnObjs == {Connection(e, k, w) : e \in Endpoints, k \in KeyVals, w \in PasswordVals}
\* A second connection object, to tell which of the two keys is selected.
OtherConn ==
  Connection([host |-> Str("other"), port |-> Absent, user |-> Absent],
             Text(<<"o">>), Str("other"))

\* <<ssh_connection, connection>>
ConnPairs ==
  {<<Absent, Absent>>, <<Null, Absent>>, <<Absent, Null>>}
    \cup {<<Absent, c>> : c \in ConnObjs}
    \cup {<<c, Absent>> : c \in ConnObjs}
    \cup {<<c, OtherConn>> : c \in ConnObjs}
EnvVals == {Absent, Str("prod"), Null}
ServerVals == {Absent, Str("web1")}

Context(e, s, cp) ==
  Dict([env |-> e, server_name |-> s, ssh_connection |-> cp[1], connection |-> cp[2]])
CtxObjs == {Context(e, s, cp) : e \in EnvVals, s \in ServerVals, cp \in ConnPairs}
\* What json.load can return: a dict or any other JSON value.
Docs == {Arr(<<>>), Null} \cup CtxObjs

JsonFile(doc) == [kind |-> "json", doc |-> doc]
NoFile == [kind |-> "absent"]
CtxFiles ==
  {NoFile, [kind |-> "unreadable"], [kind |-> "undecodable"], [kind |-> "notjson"]}
    \cup {JsonFile(d) : d \in Docs}

Prog == "inventory.py"
Argvs ==
  {<<Prog>>, <<Prog, "--list">>, <<Prog, "--list", "extra">>, <<Prog, "--host">>,
   <<Prog, "--host", "prod-web1", "extra">>}
    \cup {<<Prog, "--host", h>> : h \in {"prod-web1", "unknown-server", "unknown"}}

OldKey == <<"o", "l", "d", "k", "e", "y", LF>>
NoKeyFile == [exists |-> FALSE, content |-> <<>>, mode |-> {}, opens |-> 0]
KeyFiles ==
  {NoKeyFile} \cup
  {[exists |-> TRUE, content |-> OldKey, mode |-> m, opens |-> 0] : m \in {Mode600, Mode644}}

\* ------------------------------------------------------------------- state

VARIABLES
  ctxFile,         \* CONTEXT_FILE
  keyFile,         \* SSH_KEY_FILE: existence, content, mode, number of opens for writing
  ctxFile0,        \* CONTEXT_FILE as the invocations found it
  keyFile0,        \* SSH_KEY_FILE as the invocations found it
  procs,           \* the invocations
  argv,            \* sys.argv of each
  pc,              \* the statement each is at
  ctx, connection, env, server_name, private_key,  \* locals of get_inventory
  normalized_key,  \* local of write_ssh_key
  off,             \* bytes of normalized_key written so far
  exc,             \* the exception in flight
  keyErr,          \* the system call on SSH_KEY_FILE that failed, if any
  result,          \* what get_inventory returned
  stdout, stderr,  \* what was printed
  exit             \* <<status>> once the process has exited

files  == <<ctxFile, keyFile>>
fixed  == <<ctxFile0, keyFile0, procs, argv>>
locals == <<ctx, connection, env, server_name, private_key, normalized_key, off>>
errs   == <<exc, keyErr>>
outs   == <<result, stdout, stderr, exit>>
vars   == <<files, fixed, pc, locals, errs, outs>>

\* The invocations have just started.
Started ==
  /\ ctxFile0 = ctxFile
  /\ keyFile0 = keyFile
  /\ pc = [p \in procs |-> "exists"]
  /\ ctx = [p \in procs |-> None]
  /\ connection = [p \in procs |-> None]
  /\ env = [p \in procs |-> None]
  /\ server_name = [p \in procs |-> None]
  /\ private_key = [p \in procs |-> None]
  /\ normalized_key = [p \in procs |-> <<>>]
  /\ off = [p \in procs |-> 0]
  /\ exc = [p \in procs |-> NoExc]
  /\ keyErr = [p \in procs |-> "none"]
  /\ result = [p \in procs |-> None]
  /\ stdout = [p \in procs |-> <<>>]
  /\ stderr = [p \in procs |-> <<>>]
  /\ exit = [p \in procs |-> <<>>]

\* One invocation, any context file, any arguments, any prior key file.
Init ==
  /\ procs = {1}
  /\ ctxFile \in CtxFiles
  /\ keyFile \in KeyFiles
  /\ argv \in [procs -> Argvs]
  /\ Started

\* ----------------------------------------------------------------- actions

Goto(p, label) == pc' = [pc EXCEPT ![p] = label]

\* `raise`: the exception leaves the statement at `site`.
Raise(p, type, site) ==
  /\ exc' = [exc EXCEPT ![p] = Exc(type, site)]
  /\ Goto(p, "raise")

\* Lines 40-42: os.path.exists(CONTEXT_FILE).
CheckExists(p) ==
  /\ pc[p] = "exists"
  /\ IF ctxFile.kind = "absent"
     THEN /\ result' = [result EXCEPT ![p] = EmptyInventory]
          /\ Goto(p, "print")
     ELSE /\ Goto(p, "load")
          /\ UNCHANGED result
  /\ UNCHANGED <<files, fixed, locals, errs, stdout, stderr, exit>>

\* Lines 45-46: open(CONTEXT_FILE) and json.load.
LoadContext(p) ==
  /\ pc[p] = "load"
  /\ CASE ctxFile.kind = "json" ->
            /\ ctx' = [ctx EXCEPT ![p] = ctxFile.doc]
            /\ Goto(p, "extract")
            /\ UNCHANGED exc
       [] ctxFile.kind = "notjson" ->
            /\ Raise(p, "JSONDecodeError", "load")
            /\ UNCHANGED ctx
       [] ctxFile.kind = "undecodable" ->
            /\ Raise(p, "UnicodeDecodeError", "load")
            /\ UNCHANGED ctx
       [] OTHER ->  \* unreadable, or gone since line 40
            /\ Raise(p, "OSError", "load")
            /\ UNCHANGED ctx
  /\ UNCHANGED <<files, fixed, connection, env, server_name, private_key,
                 normalized_key, off, keyErr, outs>>

\* Lines 52-54.
ExtractContext(p) ==
  /\ pc[p] = "extract"
  /\ IF HasGet(ctx[p])
     THEN /\ connection' = [connection EXCEPT ![p] = SelectConnection(ctx[p])]
          /\ env' = [env EXCEPT ![p] = Get(ctx[p], "env", Str("unknown"))]
          /\ server_name' =
               [server_name EXCEPT ![p] = Get(ctx[p], "server_name", Str("server"))]
          /\ Goto(p, "key")
          /\ UNCHANGED exc
     ELSE /\ Raise(p, "AttributeError", "extract")
          /\ UNCHANGED <<connection, env, server_name>>
  /\ UNCHANGED <<files, fixed, ctx, private_key, normalized_key, off, keyErr, outs>>

\* Lines 57-58.
ExtractKey(p) ==
  /\ pc[p] = "key"
  /\ IF HasGet(connection[p])
     THEN LET k == Get(connection[p], "private_key", Text(<<>>))
          IN  /\ private_key' = [private_key EXCEPT ![p] = k]
              /\ Goto(p, IF WantsKey(k) THEN "normalize" ELSE "build")
              /\ UNCHANGED exc
     ELSE /\ Raise(p, "AttributeError", "key")
          /\ UNCHANGED private_key
  /\ UNCHANGED <<files, fixed, ctx, connection, env, server_name,
                 normalized_key, off, keyErr, outs>>

\* Line 26, in write_ssh_key: only a str has replace.
Normalize(p) ==
  /\ pc[p] = "normalize"
  /\ IF private_key[p].t = "str"
     THEN /\ normalized_key' =
               [normalized_key EXCEPT ![p] = NormalizeKey(private_key[p].c)]
          /\ Goto(p, "open_key")
          /\ UNCHANGED exc
     ELSE /\ Raise(p, "AttributeError", "normalize")
          /\ UNCHANGED normalized_key
  /\ UNCHANGED <<files, fixed, ctx, connection, env, server_name, private_key,
                 off, keyErr, outs>>

\* Line 29: open(SSH_KEY_FILE, 'w') creates the file or truncates it, or fails.
OpenKey(p) ==
  /\ pc[p] = "open_key"
  /\ \/ /\ \E m \in CreateModes :
             keyFile' = [exists  |-> TRUE,
                         content |-> Truncated(keyFile.content),
                         mode    |-> IF keyFile.exists THEN keyFile.mode ELSE m,
                         opens   |-> keyFile.opens + 1]
        /\ off' = [off EXCEPT ![p] = 0]
        /\ Goto(p, "write_key")
        /\ UNCHANGED errs
     \/ /\ keyErr' = [keyErr EXCEPT ![p] = "open"]
        /\ Raise(p, "OSError", "open_key")
        /\ UNCHANGED <<keyFile, off>>
  /\ UNCHANGED <<ctxFile, fixed, ctx, connection, env, server_name, private_key,
                 normalized_key, outs>>

\* Line 30 and the flush on leaving the `with` block: the buffered text goes
\* to the file in one write or in several, each at the offset of this open
\* file, or a write fails.
WriteKey(p) ==
  /\ pc[p] = "write_key"
  /\ off[p] < Len(normalized_key[p])
  /\ \/ /\ \E n \in 1..(Len(normalized_key[p]) - off[p]) :
             /\ keyFile' =
                  [keyFile EXCEPT !.content =
                     WriteAt(keyFile.content, off[p],
                             SubSeq(normalized_key[p], off[p] + 1, off[p] + n))]
             /\ off' = [off EXCEPT ![p] = off[p] + n]
        /\ UNCHANGED <<pc, errs>>
     \/ /\ keyErr' = [keyErr EXCEPT ![p] = "write"]
        /\ Raise(p, "OSError", "write_key")
        /\ UNCHANGED <<keyFile, off>>
  /\ UNCHANGED <<ctxFile, fixed, ctx, connection, env, server_name, private_key,
                 normalized_key, outs>>

\* The end of the `with` block, once everything is written.
CloseKey(p) ==
  /\ pc[p] = "write_key"
  /\ off[p] = Len(normalized_key[p])
  /\ Goto(p, "chmod")
  /\ UNCHANGED <<files, fixed, locals, errs, outs>>

\* Line 31: os.chmod(SSH_KEY_FILE, S_IRUSR | S_IWUSR), or it fails.
Chmod(p) ==
  /\ pc[p] = "chmod"
  /\ \/ /\ keyFile' = [keyFile EXCEPT !.mode = KeyMode]
        /\ Goto(p, "key_return")
        /\ UNCHANGED errs
     \/ /\ keyErr' = [keyErr EXCEPT ![p] = "chmod"]
        /\ Raise(p, "OSError", "chmod")
        /\ UNCHANGED keyFile
  /\ UNCHANGED <<ctxFile, fixed, locals, outs>>

\* Line 33: write_ssh_key returns to line 59.
ReturnKey(p) ==
  /\ pc[p] = "key_return"
  /\ Goto(p, "build")
  /\ UNCHANGED <<files, fixed, locals, errs, outs>>

\* Lines 62-91.
Build(p) ==
  /\ pc[p] = "build"
  /\ result' = [result EXCEPT ![p] =
       BuildInventory(HostName(env[p], server_name[p]), BuildHostvars(connection[p]))]
  /\ Goto(p, "print")
  /\ UNCHANGED <<files, fixed, locals, errs, stdout, stderr, exit>>

\* Lines 96-106: main prints and the process ends with status 0.
PrintResult(p) ==
  /\ pc[p] = "print"
  /\ stdout' = [stdout EXCEPT ![p] = Append(@, Dispatch(argv[p], result[p]))]
  /\ exit' = [exit EXCEPT ![p] = <<0>>]
  /\ Goto(p, "done")
  /\ UNCHANGED <<files, fixed, locals, errs, result, stderr>>

\* An exception in flight: lines 47-49 catch it, or it leaves get_inventory
\* and main, and the interpreter prints a traceback and exits with status 1.
Unwind(p) ==
  /\ pc[p] = "raise"
  /\ IF Caught(exc[p])
     THEN /\ stderr' = [stderr EXCEPT ![p] = Append(@, "Error reading context file")]
          /\ result' = [result EXCEPT ![p] = EmptyInventory]
          /\ exc' = [exc EXCEPT ![p] = NoExc]
          /\ Goto(p, "print")
          /\ UNCHANGED exit
     ELSE /\ stderr' = [stderr EXCEPT ![p] = Append(@, "Traceback")]
          /\ exit' = [exit EXCEPT ![p] = <<1>>]
          /\ Goto(p, "crashed")
          /\ UNCHANGED <<result, exc>>
  /\ UNCHANGED <<files, fixed, locals, keyErr, stdout>>

\* The context file is removed by its producer between line 40 and line 45.
ContextVanishes ==
  /\ \E p \in procs : pc[p] = "load"
  /\ ctxFile.kind # "absent"
  /\ ctxFile' = NoFile
  /\ UNCHANGED <<keyFile, fixed, pc, locals, errs, outs>>

\* The invocations, with the context file left alone.
Run ==
  \/ \E p \in procs : CheckExists(p)
  \/ \E p \in procs : LoadContext(p)
  \/ \E p \in procs : ExtractContext(p)
  \/ \E p \in procs : ExtractKey(p)
  \/ \E p \in procs : Normalize(p)
  \/ \E p \in procs : OpenKey(p)
  \/ \E p \in procs : WriteKey(p)
  \/ \E p \in procs : CloseKey(p)
  \/ \E p \in procs : Chmod(p)
  \/ \E p \in procs : ReturnKey(p)
  \/ \E p \in procs : Build(p)
  \/ \E p \in procs : PrintResult(p)
  \/ \E p \in procs : Unwind(p)

Next == Run \/ ContextVanishes

Spec == Init /\ [][Next]_vars

\* One invocation whose context supplies a key drawn from the strings of
\* at most MaxKeyLen characters, or the key of the round trip.
KeyContext(k) ==
  Context(Str("prod"), Str("web1"),
          <<Connection([host |-> Str("10.0.0.5"), port |-> Absent, user |-> Absent],
                       Text(k), Absent),
            Absent>>)

InitKey ==
  /\ procs = {1}
  /\ \E k \in Strings(MaxKeyLen) \cup {RoundTripKey} : ctxFile = JsonFile(KeyContext(k))
  /\ keyFile \in KeyFiles
  /\ argv = [p \in procs |-> <<Prog, "--list">>]
  /\ Started

SpecKey == InitKey /\ [][Run]_vars

\* NumProcs invocations, all called the same way, against one unchanged
\* context file that supplies a key.
ConcKey == <<"k", BS, "n", "2">>

InitConc ==
  /\ procs = 1..NumProcs
  /\ ctxFile = JsonFile(KeyContext(ConcKey))
  /\ keyFile \in KeyFiles
  /\ \E a \in {<<Prog, "--list">>, <<Prog, "--host", "prod-web1">>} :
       argv = [p \in procs |-> a]
  /\ Started

SpecConc == InitConc /\ [][Run]_vars

\* ------------------------------------------------------------------ claims

Terminated(p) == pc[p] \in {"done", "crashed"}
Diagnostic == "Error reading context file"

\* The connection object line 52 selects, read off the document.
Selected(doc) ==
  IF "ssh_connection" \in DOMAIN doc.o THEN doc.o.ssh_connection
  ELSE IF "connection" \in DOMAIN doc.o THEN doc.o.connection
  ELSE EmptyDict

IsStrOrAbsent(d, k) == k \in DOMAIN d.o => d.o[k].t = "str"

\* A context document as section 3 of the specification describes it.
WellFormed(doc) ==
  /\ doc.t = "obj"
  /\ IsStrOrAbsent(doc, "env")
  /\ IsStrOrAbsent(doc, "server_name")
  /\ Selected(doc).t = "obj"
  /\ IsStrOrAbsent(Selected(doc), "private_key")
  /\ IsStrOrAbsent(Selected(doc), "password")

\* The host identifier of a well-formed document.
HostId(doc) ==
  (IF "env" \in DOMAIN doc.o THEN doc.o.env.s ELSE "unknown")
    \o "-" \o
  (IF "server_name" \in DOMAIN doc.o THEN doc.o.server_name.s ELSE "server")

\* The full single-host shape.
IsFullInventory(inv) ==
  /\ inv.t = "obj"
  /\ DOMAIN inv.o = {"all", "_meta"}
  /\ DOMAIN inv.o.all.o = {"hosts", "vars"}
  /\ inv.o.all.o.hosts.t = "arr"
  /\ Len(inv.o.all.o.hosts.a) = 1
  /\ inv.o.all.o.vars = EmptyDict
  /\ DOMAIN inv.o._meta.o = {"hostvars"}
  /\ DOMAIN inv.o._meta.o.hostvars.o = {inv.o.all.o.hosts.a[1].s}

\* The context of p parsed and its selected connection holds a non-empty
\* private key string.
SuppliesKey(p) ==
  /\ ctx[p] # None
  /\ ctx[p].t = "obj"
  /\ Selected(ctx[p]).t = "obj"
  /\ "private_key" \in DOMAIN Selected(ctx[p]).o
  /\ Selected(ctx[p]).o.private_key.t = "str"
  /\ Selected(ctx[p]).o.private_key.c # <<>>

\* C1: whatever the context file holds (absent, unreadable, not JSON, or
\* JSON of any shape), unless a key-file write fails, get_inventory raises
\* nothing and returns the empty shape or a full single-host inventory, and
\* the process exits with status 0.  (A file whose bytes do not decode is
\* the read failure of C3 and is left to it.)
C1_NeverRaises ==
  \A p \in procs :
    (Terminated(p) /\ keyErr[p] = "none" /\ ctxFile0.kind # "undecodable") =>
      /\ pc[p] = "done"
      /\ exit[p] = <<0>>
      /\ (result[p] = EmptyInventory \/ IsFullInventory(result[p]))

\* C2: a failure to open, write or chmod the key file is not swallowed: the
\* process ends with a non-zero status, get_inventory returns nothing and
\* nothing is printed to standard output.
C2_KeyFailurePropagates ==
  \A p \in procs :
    keyErr[p] # "none" =>
      /\ pc[p] \in {"raise", "crashed"}
      /\ result[p] = None
      /\ stdout[p] = <<>>
      /\ (pc[p] = "crashed" => exit[p] = <<1>>)

C2_Witness ==
  \E p \in procs :
    /\ pc[p] = "crashed"
    /\ keyErr[p] = "chmod"
    /\ argv[p] = <<Prog, "--host", "prod-web1">>

\* C3: with the context file absent, or its read or parse failing,
\* get_inventory returns exactly the empty shape, with one diagnostic line
\* on the error stream when the read or parse failed and none when the file
\* was absent at line 40.
C3_EmptyOnFailure ==
  \A p \in procs :
    (Terminated(p) /\ ctx[p] = None) =>
      /\ result[p] = EmptyInventory
      /\ stderr[p] = IF ctxFile0.kind = "absent" THEN <<>> ELSE <<Diagnostic>>

\* C5: when write_ssh_key returns, the key file has exactly the owner's read
\* and write bits, whatever it had before, and holds the whole key.
C5_OwnerOnlyOnReturn ==
  \A p \in procs :
    pc[p] = "key_return" =>
      /\ keyFile.exists
      /\ keyFile.mode = {"S_IRUSR", "S_IWUSR"}
      /\ keyFile.content = normalized_key[p]

C5_Witness ==
  \E p \in procs :
    /\ pc[p] = "key_return"
    /\ keyFile0.exists
    /\ keyFile0.mode = Mode644

\* C6: for a well-formed context the inventory returned has all.hosts equal
\* to the one host identifier env-server_name (with the defaults "unknown"
\* and "server"), all.vars empty and that identifier as the only key of
\* _meta.hostvars.
C6_HostIdentifier ==
  \A p \in procs :
    (ctx[p] # None /\ WellFormed(ctx[p]) /\ result[p] # None) =>
      /\ result[p].o.all.o.hosts = Arr(<<Str(HostId(ctx[p]))>>)
      /\ result[p].o.all.o.vars = EmptyDict
      /\ DOMAIN result[p].o._meta.o.hostvars.o = {HostId(ctx[p])}

C6_Witness ==
  \E p \in procs :
    /\ pc[p] = "done"
    /\ ctx[p] # None
    /\ WellFormed(ctx[p])
    /\ "env" \notin DOMAIN ctx[p].o
    /\ "server_name" \in DOMAIN ctx[p].o
    /\ result[p].o.all.o.hosts = Arr(<<Str("unknown-web1")>>)

\* The password the selected connection supplies is a non-empty string.
HasPassword(doc) ==
  /\ "password" \in DOMAIN Selected(doc).o
  /\ Selected(doc).o.password.t = "str"
  /\ Selected(doc).o.password.s # ""

\* The one hostvars record of a full inventory.
HostvarsOf(inv) ==
  inv.o._meta.o.hostvars.o[CHOOSE h \in DOMAIN inv.o._meta.o.hostvars.o : TRUE].o

\* C7: the hostvars record holds ansible_become_password exactly when the
\* selected connection supplies a non-empty password, and then with that
\* password as its value.
C7_BecomePassword ==
  \A p \in procs :
    (ctx[p] # None /\ result[p] # None) =>
      /\ "ansible_become_password" \in DOMAIN HostvarsOf(result[p])
           <=> HasPassword(ctx[p])
      /\ HasPassword(ctx[p]) =>
           HostvarsOf(result[p]).ansible_become_password
             = Selected(ctx[p]).o.password

C7_Witness ==
  \E p \in procs :
    /\ pc[p] = "done"
    /\ ctx[p] # None
    /\ result[p] # None
    /\ HasPassword(ctx[p])
    /\ "connection" \in DOMAIN ctx[p].o
    /\ "ssh_connection" \in DOMAIN ctx[p].o
    /\ HostvarsOf(result[p]).ansible_become_password = Str("s3cret")

\* What `--host name` is to print for the inventory get_inventory returned.
HostvarsFor(inv, name) ==
  IF IsFullInventory(inv) /\ inv.o.all.o.hosts.a[1].s = name
  THEN inv.o._meta.o.hostvars.o[name]
  ELSE EmptyDict

\* C8: with exactly the arguments --host <name> the program prints the
\* hostvars record of <name> if <name> is the derived host identifier and {}
\* otherwise; with any other arguments it prints the whole inventory.
C8_PositionalDispatch ==
  \A p \in procs :
    pc[p] = "done" =>
      stdout[p] =
        << IF Len(argv[p]) = 3 /\ argv[p][2] = "--host"
           THEN HostvarsFor(result[p], argv[p][3])
           ELSE result[p] >>

C8_Witness ==
  \E p \in procs :
    /\ pc[p] = "done"
    /\ argv[p] = <<Prog, "--host", "prod-web1">>
    /\ IsFullInventory(result[p])
    /\ "prod-web1" \in DOMAIN result[p].o._meta.o.hostvars.o
    /\ stdout[p] = <<result[p].o._meta.o.hostvars.o["prod-web1"]>>

C4_LineFeedOnly ==
  \A p \in procs :
    pc[p] = "key_return" =>
      LET f == keyFile.content
      IN  /\ \A i \in 1..Len(f) : f[i] # CR
          /\ f # <<>>
          /\ f[Len(f)] = LF
          /\ Len(f) >= 2 => f[Len(f) - 1] # LF
          /\ private_key[p] = Text(RoundTripKey) => f = RoundTripFile

\* What does hold of the key file: it ends with exactly one line feed, holds
\* no CR LF pair unless the key had a carriage return before a CR LF or a
\* literal backslash-n, and the round trip gives line1 LF line2 LF.
KeyFileEndsWithOneLineFeed ==
  \A p \in procs :
    pc[p] = "key_return" =>
      LET f == keyFile.content
      IN  /\ f # <<>>
          /\ f[Len(f)] = LF
          /\ Len(f) >= 2 => f[Len(f) - 1] \notin Whitespace
          /\ private_key[p] = Text(RoundTripKey) => f = RoundTripFile

\* C9, as claimed: once one invocation has finished, the key file holds the
\* whole normalized key in every later state.
C9_CompleteOnceOneFinished ==
  (\E p \in procs : pc[p] = "done") => keyFile.content = NormalizeKey(ConcKey)

\* C9, amended: the key file holds the whole normalized key whenever it has
\* been opened, no invocation is between its open and the end of its write,
\* and no write has failed; so it does once all invocations have finished.
C9_CompleteOutsideWrites ==
  (/\ keyFile.opens > 0
   /\ \A p \in procs : pc[p] # "write_key" /\ keyErr[p] # "write")
    => keyFile.content = NormalizeKey(ConcKey)

C9_Witness ==
  /\ \A p \in procs : pc[p] = "done"
  /\ keyFile.opens = Cardinality(procs)
  /\ keyFile0.exists
  /\ keyFile.content = <<"k", LF, "2", LF>>

====
